---- MODULE Spec2Model ----
(***************************************************************************)
(* Model of src-tauri/src/keypress_simulator.rs: the timed key-event       *)
(* playback engine (start_playback / stop_playback, the background         *)
(* playback thread, simulate_keypress and parse_key_string).               *)
(*                                                                         *)
(* Time is in milliseconds.  A key expression (a Rust &str) is a sequence  *)
(* of characters, each character a one-character string, except that the  *)
(* two-byte character U+00E9 is written "U+00E9".                          *)
(*                                                                         *)
(* Spec: two callers, every lock block one step.  KeySpec: one call with   *)
(* one event, over many key expressions.  LockSpec: every lock() a step of *)
(* its own.  FairLockSpec: LockSpec's steps under fair scheduling.         *)
(***************************************************************************)
EXTENDS Integers, Sequences, FiniteSets, TLC

\* ------------------------------------------------------------------ bounds

\* The number of start_playback and stop_playback calls the callers make.
MaxCalls == 3

\* The number of calls where termination is followed under fairness.
MaxFairCalls == 2

\* The caller threads that issue start_playback / stop_playback.
Callers == {"c1", "c2"}

\* The background threads: each start_playback call spawns at most one.
Runs == 1..MaxCalls

\* Option::None of PLAYBACK_HANDLE; Some(handle of run r) is r.
None == 0

\* ------------------------------------------------------- program constants

\* The floor of the hold time, .max(50.0) milliseconds.
MinHoldMs == 50

\* The clock advances in steps of one minimum hold.
TickMs == MinHoldMs

\* ------------------------------------------------------------ key strings

K_a == <<"a">>
K_bang == <<"!">>
K_Shift_b == <<"S", "h", "i", "f", "t", "+", "b">>
K_foo_a == <<"f", "o", "o", "+", "a">>
K_ctrl_alt_c == <<"c", "t", "r", "l", "+", "a", "l", "t", "+", "c">>
K_eacute == <<"U+00E9">>
K_ab == <<"a", "b">>

\* KeyEvent { time, key, duration }, time and duration in milliseconds.
KeyEvent(t, k, d) == [time |-> t, key |-> k, duration |-> d]

\* The event sequences the callers pass to start_playback: none; an event with
\* an unknown modifier followed by an event with an earlier time; an event
\* macOS has no key code for followed by an event with a negative time.
EventSeqs ==
    { <<>>,
      << KeyEvent(50, K_foo_a, 0), KeyEvent(0, K_Shift_b, 50) >>,
      << KeyEvent(0, K_bang, -50), KeyEvent(-50, K_a, 0) >> }

Max(a, b) == IF a >= b THEN a ELSE b
Min(a, b) == IF a <= b THEN a ELSE b

RECURSIVE SeqMaxTime(_)
SeqMaxTime(evs) ==
    IF evs = <<>> THEN 0 ELSE Max(Head(evs).time, SeqMaxTime(Tail(evs)))

\* The largest event offset: start_time.elapsed() is only ever compared with
\* event offsets, so the model stops counting it there.
ElapsedCap == CHOOSE m \in {SeqMaxTime(s) : s \in EventSeqs} :
                  \A s \in EventSeqs : SeqMaxTime(s) <= m

\* ----------------------------------------------------- parse_key_string

\* char::to_lowercase on the characters the model uses.
ToLower(ch) ==
    CASE ch = "A" -> "a"
      [] ch = "B" -> "b"
      [] ch = "C" -> "c"
      [] ch = "F" -> "f"
      [] ch = "H" -> "h"
      [] ch = "I" -> "i"
      [] ch = "L" -> "l"
      [] ch = "R" -> "r"
      [] ch = "S" -> "s"
      [] ch = "T" -> "t"
      [] OTHER -> ch

to_lowercase(s) == [i \in 1..Len(s) |-> ToLower(s[i])]

\* The UTF-8 length of a character in bytes.
Utf8Len(ch) == IF ch = "U+00E9" THEN 2 ELSE 1

\* str::len: the length in bytes.
RECURSIVE ByteLen(_)
ByteLen(s) == IF s = <<>> THEN 0 ELSE Utf8Len(Head(s)) + ByteLen(Tail(s))

\* key_str.split('+').collect()
RECURSIVE Split(_)
Split(s) ==
    IF \A i \in 1..Len(s) : s[i] # "+"
    THEN << s >>
    ELSE LET i == CHOOSE j \in 1..Len(s) :
                      s[j] = "+" /\ \A k \in 1..(j - 1) : s[k] # "+"
         IN  << SubSeq(s, 1, i - 1) >> \o Split(SubSeq(s, i + 1, Len(s)))

\* The match of a lower-cased modifier token: the Key it names, or "Unknown".
ModifierOf(part_lower, mac) ==
    CASE part_lower = <<"s", "h", "i", "f", "t">> -> "Shift"
      [] part_lower \in { <<"c", "t", "r", "l">>,
                          <<"c", "o", "n", "t", "r", "o", "l">> } ->
            IF mac THEN "Meta" ELSE "Control"
      [] part_lower = <<"a", "l", "t">> -> "Alt"
      [] part_lower \in { <<"m", "e", "t", "a">>, <<"c", "m", "d">>,
                          <<"c", "o", "m", "m", "a", "n", "d">>,
                          <<"w", "i", "n">>,
                          <<"s", "u", "p", "e", "r">> } -> "Meta"
      [] OTHER -> "Unknown"

\* The loop with an unknown modifier token passed over instead of reported.
RECURSIVE ParsePartsSkipsUnknown(_, _, _, _)
ParsePartsSkipsUnknown(parts, i, modifiers, mac) ==
    IF i < Len(parts)
    THEN LET m == ModifierOf(to_lowercase(parts[i]), mac)
         IN  ParsePartsSkipsUnknown(parts, i + 1,
                 IF m = "Unknown" THEN modifiers ELSE Append(modifiers, m), mac)
    ELSE IF ByteLen(parts[i]) = 1
         THEN [ok |-> TRUE, err |-> "", part |-> <<>>,
               modifiers |-> modifiers, main_key |-> parts[i][1]]
         ELSE [ok |-> FALSE, err |-> "Invalid main key", part |-> parts[i],
               modifiers |-> <<>>, main_key |-> "none"]

\* The loop of parse_key_string over parts[i..], with the modifiers so far.
RECURSIVE ParseParts(_, _, _, _)
ParseParts(parts, i, modifiers, mac) ==
    IF i < Len(parts)
    THEN LET m == ModifierOf(to_lowercase(parts[i]), mac)
         IN  IF m = "Unknown"
             THEN [ok |-> FALSE, err |-> "Unknown modifier key", part |-> parts[i],
                   modifiers |-> <<>>, main_key |-> "none"]
             ELSE ParseParts(parts, i + 1, Append(modifiers, m), mac)
    ELSE IF ByteLen(parts[i]) = 1
         THEN [ok |-> TRUE, err |-> "", part |-> <<>>,
               modifiers |-> modifiers, main_key |-> parts[i][1]]
         ELSE [ok |-> FALSE, err |-> "Invalid main key", part |-> parts[i],
               modifiers |-> <<>>, main_key |-> "none"]

parse_key_string(key_str, mac) == ParseParts(Split(key_str), 1, <<>>, mac)

\* No parse_key_string call has returned yet in this iteration.
NotParsed ==
    [ok |-> FALSE, err |-> "none", part |-> <<>>, modifiers |-> <<>>,
     main_key |-> "none"]

\* ------------------------------------------------ char_to_macos_keycode

\* The kVK_ANSI_* table: the characters in order of their key code's row below.
MacChars ==
    << "a", "b", "c", "d", "e", "f", "g", "h", "i", "j", "k", "l", "m",
       "n", "o", "p", "q", "r", "s", "t", "u", "v", "w", "x", "y", "z",
       "0", "1", "2", "3", "4", "5", "6", "7", "8", "9" >>

MacCodes ==
    <<  0, 11,  8,  2, 14,  3,  5,  4, 34, 38, 40, 37, 46,
       45, 31, 35, 12, 15,  1, 17, 32,  9, 13,  7, 16,  6,
       29, 18, 19, 20, 21, 23, 22, 26, 28, 25 >>

\* Some(code) is the code, None is -1.
char_to_macos_keycode(ch) ==
    LET lc == ToLower(ch)
    IN  IF \E i \in 1..Len(MacChars) : MacChars[i] = lc
        THEN MacCodes[CHOOSE i \in 1..Len(MacChars) : MacChars[i] = lc]
        ELSE -1

\* ---------------------------------------------------- simulate_keypress

\* enigo's Key: a modifier (Shift, Control, Alt, Meta), Key::Unicode(ch), or
\* the key code handed to enigo.raw.
ModKey(m) == [kind |-> m, ch |-> "", code |-> -1]
UnicodeKey(c) == [kind |-> "Unicode", ch |-> c, code |-> -1]
RawKey(n) == [kind |-> "Raw", ch |-> "", code |-> n]

Press(k) == [dir |-> "Press", key |-> k]
Release(k) == [dir |-> "Release", key |-> k]

Reverse(s) == [i \in 1..Len(s) |-> s[Len(s) + 1 - i]]

\* Whether the main character can be injected: on macOS only the characters
\* of the key code table, elsewhere every character.
Supported(ch, mac) == mac => char_to_macos_keycode(ch) # -1

\* The key the main character is injected as: enigo.raw(keycode) on macOS,
\* enigo.key(Key::Unicode(ch)) elsewhere.
MainKey(ch, mac) ==
    IF mac THEN RawKey(char_to_macos_keycode(ch)) ELSE UnicodeKey(ch)

\* The injection calls up to the hold: press each modifier, press the main key.
PressCalls(p, mac) ==
    [i \in 1..Len(p.modifiers) |-> Press(ModKey(p.modifiers[i]))]
        \o (IF Supported(p.main_key, mac)
            THEN << Press(MainKey(p.main_key, mac)) >> ELSE <<>>)

\* The modifiers released in the order they were pressed.
ReleaseCallsInPressOrder(p, mac) ==
    << Release(MainKey(p.main_key, mac)) >>
        \o [i \in 1..Len(p.modifiers) |-> Release(ModKey(p.modifiers[i]))]

\* The injection calls after the hold: release the main key, then the
\* modifiers in reverse.
ReleaseCalls(p, mac) ==
    << Release(MainKey(p.main_key, mac)) >>
        \o [i \in 1..Len(p.modifiers) |-> Release(ModKey(Reverse(p.modifiers)[i]))]

\* The hold: Duration::from_millis((duration * 1000.0).max(50.0) as u64).
HoldMs(duration) == Max(duration, MinHoldMs)

\* simulate_keypress up to the hold.  failAt = 0: no injection call fails;
\* failAt = k: the k-th call of PressCalls returns Err.  acts: the calls that
\* succeeded; res: "Hold" when the main key is down and the hold begins,
\* otherwise the Err the function returns with.
SimPress(key_str, mac, failAt) ==
    LET p == parse_key_string(key_str, mac)
    IN  IF ~p.ok
        THEN [acts |-> <<>>, res |-> p.err]
        ELSE LET calls == PressCalls(p, mac)
             IN  IF failAt = 0
                 THEN IF Supported(p.main_key, mac)
                      THEN [acts |-> calls, res |-> "Hold"]
                      ELSE [acts |-> calls, res |-> "Unsupported character"]
                 ELSE [acts |-> SubSeq(calls, 1, failAt - 1),
                       res |-> IF failAt <= Len(p.modifiers)
                               THEN "Failed to press modifier"
                               ELSE "Failed to press key"]

\* The number of injection calls of the press phase (none on a parse error).
NPressCalls(key_str, mac) ==
    LET p == parse_key_string(key_str, mac)
    IN  IF p.ok THEN Len(PressCalls(p, mac)) ELSE 0

\* simulate_keypress after the hold.  failAt as above, over ReleaseCalls.
SimRelease(key_str, mac, failAt) ==
    LET p == parse_key_string(key_str, mac)
        calls == ReleaseCalls(p, mac)
    IN  IF failAt = 0
        THEN [acts |-> calls, res |-> "Ok"]
        ELSE [acts |-> SubSeq(calls, 1, failAt - 1),
              res |-> IF failAt = 1
                      THEN "Failed to release key"
                      ELSE "Failed to release modifier"]

NReleaseCalls(key_str, mac) ==
    Len(ReleaseCalls(parse_key_string(key_str, mac), mac))

\* The keys a sequence of injection calls leaves pressed.
RECURSIVE Held(_)
Held(acts) ==
    IF acts = <<>> THEN {}
    ELSE LET a == acts[Len(acts)]
             before == Held(SubSeq(acts, 1, Len(acts) - 1))
         IN  IF a.dir = "Press" THEN before \cup {a.key} ELSE before \ {a.key}

\* ------------------------------------------- the key expressions under test

\* Tokens written where a modifier goes, with the modifier each one names
\* ("Ctrl" is the platform-dependent one); the aliases, and three in other
\* letter cases.
ModTokens ==
    { [text |-> <<"s", "h", "i", "f", "t">>, names |-> "Shift"],
      [text |-> <<"S", "h", "i", "f", "t">>, names |-> "Shift"],
      [text |-> <<"c", "t", "r", "l">>, names |-> "Ctrl"],
      [text |-> <<"C", "T", "R", "L">>, names |-> "Ctrl"],
      [text |-> <<"c", "o", "n", "t", "r", "o", "l">>, names |-> "Ctrl"],
      [text |-> <<"a", "l", "t">>, names |-> "Alt"],
      [text |-> <<"A", "l", "t">>, names |-> "Alt"],
      [text |-> <<"m", "e", "t", "a">>, names |-> "Meta"],
      [text |-> <<"c", "m", "d">>, names |-> "Meta"],
      [text |-> <<"c", "o", "m", "m", "a", "n", "d">>, names |-> "Meta"],
      [text |-> <<"w", "i", "n">>, names |-> "Meta"],
      [text |-> <<"s", "u", "p", "e", "r">>, names |-> "Meta"] }

\* Tokens that name no modifier: a word, a letter, the empty token.
UnknownTokens ==
    { [text |-> <<"f", "o", "o">>, names |-> "Unknown"],
      [text |-> <<"a">>, names |-> "Unknown"],
      [text |-> <<>>, names |-> "Unknown"] }

\* The tokens written in pairs (every token is written alone as well).
PairTokens ==
    { t \in ModTokens \cup UnknownTokens :
        t.text \in { <<"S", "h", "i", "f", "t">>, <<"c", "t", "r", "l">>,
                     <<"a", "l", "t">>, <<"c", "m", "d">>, <<"f", "o", "o">> } }

\* What is written before the final token: no token, one token, two tokens.
ModSeqs ==
    { <<>> } \cup { <<t>> : t \in ModTokens \cup UnknownTokens }
             \cup { <<t, u>> : t \in PairTokens, u \in PairTokens }

\* Final tokens: one character of one byte, one character of two bytes
\* (U+00E9), two characters, none.
FinalTokens == { <<"a">>, <<"B">>, <<"!">>, <<"U+00E9">>, <<"a", "b">>, <<>> }

\* The tokens joined by '+'.
RECURSIVE Join(_)
Join(toks) ==
    IF Len(toks) = 1 THEN toks[1] ELSE toks[1] \o <<"+">> \o Join(Tail(toks))

\* The key expression written as the tokens ms and the final token fin.
Expr(ms, fin) == Join([i \in 1..Len(ms) |-> ms[i].text] \o <<fin>>)

KeyStrs == { Expr(ms, fin) : ms \in ModSeqs, fin \in FinalTokens }

\* One event, due at once, with a hold below and a hold above the floor.
KeySeqs == { << KeyEvent(0, k, d) >> : k \in KeyStrs, d \in {0, 2 * MinHoldMs} }

\* The Key a written modifier token stands for on the platform.
KeyNamed(t, mac) ==
    IF t.names = "Ctrl" THEN (IF mac THEN "Meta" ELSE "Control") ELSE t.names

\* ------------------------------------------------------------------ state

VARIABLES
    PLAYBACK_HANDLE,  \* None, or the run whose JoinHandle is stored
    SHOULD_STOP,      \* the cancellation flag
    is_macos,         \* cfg!(target_os = "macos") of the build
    spawned,          \* the number of threads thread::spawn has created
    calls,            \* the number of calls made so far
    cpc,              \* each caller's position in start_playback / stop_playback
    chandle,          \* the local `handle` of start_playback and stop_playback
    result,           \* what each caller's last call returned
    tpc,              \* each background thread's position
    events,           \* the events moved into the thread's closure
    idx,              \* the position of `for event in events`
    elapsed,          \* start_time.elapsed() in the loop, counted up to ElapsedCap
    sleepLeft,        \* what is left of the thread::sleep in progress
    how,              \* how the thread left its loop
    executed,         \* the events passed to simulate_keypress so far
    injected,         \* the injection calls of this iteration's simulate_keypress
    simres,           \* what this iteration's simulate_keypress returned
    parsed,           \* what this iteration's parse_key_string returned
    \* History of the calls, read by the properties only:
    unstopped,        \* run: its start_playback returned Ok, it is alive, and no
                      \*   stop_playback call was under way then or has begun since
    watch,            \* stop_playback call: the live runs whose start_playback
                      \*   had returned when the call began
    cancelAt,         \* run: the event it was waiting for when stop_playback set
                      \*   the flag (0: none, or a start_playback began since)
    overlap,          \* stop_playback call: a start_playback call was past its
                      \*   check at some moment of this call
    \* The mutexes, at the grain of one lock() and one guard drop:
    cguards,          \* caller: the locks whose MutexGuard it holds
    tguards,          \* background thread: the locks whose MutexGuard it holds
    cblock,           \* caller: the lock block it is inside ("none": outside all)
    tblock            \* background thread: the lock block it is inside

shared == <<PLAYBACK_HANDLE, SHOULD_STOP, is_macos, spawned>>
callerVars == <<cpc, chandle, result, calls>>
clockVars == <<elapsed, sleepLeft>>
keyVars == <<executed, injected, simres, parsed>>
threadVars == <<tpc, events, idx, how>>
history == <<unstopped, watch, cancelAt, overlap>>
lockVars == <<cguards, tguards, cblock, tblock>>
vars == <<shared, callerVars, threadVars, clockVars, keyVars, history, lockVars>>

Init ==
    /\ PLAYBACK_HANDLE = None
    /\ SHOULD_STOP = FALSE
    /\ is_macos \in BOOLEAN
    /\ spawned = 0
    /\ calls = 0
    /\ cpc = [c \in Callers |-> "idle"]
    /\ chandle = [c \in Callers |-> None]
    /\ result = [c \in Callers |-> "none"]
    /\ tpc = [r \in Runs |-> "unborn"]
    /\ events = [r \in Runs |-> <<>>]
    /\ idx = [r \in Runs |-> 1]
    /\ elapsed = [r \in Runs |-> 0]
    /\ sleepLeft = [r \in Runs |-> 0]
    /\ how = [r \in Runs |-> "running"]
    /\ executed = [r \in Runs |-> <<>>]
    /\ injected = [r \in Runs |-> <<>>]
    /\ simres = [r \in Runs |-> "none"]
    /\ parsed = [r \in Runs |-> NotParsed]
    /\ unstopped = [r \in Runs |-> FALSE]
    /\ watch = [c \in Callers |-> {}]
    /\ cancelAt = [r \in Runs |-> 0]
    /\ overlap = [c \in Callers |-> FALSE]
    /\ cguards = [c \in Callers |-> {}]
    /\ tguards = [r \in Runs |-> {}]
    /\ cblock = [c \in Callers |-> "none"]
    /\ tblock = [r \in Runs |-> "none"]

\* The thread has returned (or panicked): JoinHandle::join on it returns.
Exited(r) == tpc[r] \in {"done", "panicked"}

\* The thread has been spawned and has not exited.
Alive(r) == tpc[r] \notin {"unborn", "done", "panicked"}

\* The thread is in its loop with an event still to process.
Processing(r) ==
    \/ tpc[r] \in {"sleep", "exec", "hold"}
    \/ tpc[r] = "loop" /\ idx[r] <= Len(events[r])

\* The caller is in start_playback, past the check.
InStart(c) == cpc[c] \in {"s_reset", "s_spawn", "s_store"}

\* The caller is in stop_playback.
InStop(c) == cpc[c] \in {"p_take", "p_join"}

\* The start_playback call that spawned run r has returned.
StartReturned(r) ==
    /\ r <= spawned
    /\ \A c \in Callers : ~(cpc[c] = "s_store" /\ chandle[c] = r)

\* ------------------------------------------------------------ the history

\* A start_playback call begins; `passed`: its check finds the handle empty.
HistStart(passed) ==
    /\ cancelAt' = [r \in Runs |-> 0]
    /\ overlap' = [c \in Callers |-> overlap[c] \/ (passed /\ InStop(c))]
    /\ UNCHANGED <<unstopped, watch>>

\* The start_playback call that spawned run r returns Ok.
HistStarted(r) ==
    /\ unstopped' = [unstopped EXCEPT ![r] =
           Alive(r) /\ \A c \in Callers : ~InStop(c)]
    /\ UNCHANGED <<watch, cancelAt, overlap>>

\* Caller c's stop_playback call begins, setting the flag.
HistStop(c) ==
    /\ unstopped' = [r \in Runs |-> FALSE]
    /\ watch' = [watch EXCEPT ![c] = {r \in Runs : Alive(r) /\ StartReturned(r)}]
    /\ cancelAt' = [r \in Runs |->
           IF tpc[r] = "sleep" /\ cancelAt[r] = 0 THEN idx[r] ELSE cancelAt[r]]
    /\ overlap' = [overlap EXCEPT ![c] = \E d \in Callers : InStart(d)]

\* Caller c's stop_playback call returns.
HistStopped(c) ==
    /\ watch' = [watch EXCEPT ![c] = {}]
    /\ overlap' = [overlap EXCEPT ![c] = FALSE]
    /\ UNCHANGED <<unstopped, cancelAt>>

\* Run r's thread exits.
HistExit(r) ==
    /\ unstopped' = [unstopped EXCEPT ![r] = FALSE]
    /\ watch' = [c \in Callers |-> watch[c] \ {r}]
    /\ cancelAt' = [cancelAt EXCEPT ![r] = 0]
    /\ UNCHANGED overlap

\* ------------------------------------------------------- start_playback

\* start_playback as it would be with the flag reset moved before the check.
StartCheckResetsFirst(c) ==
    /\ cpc[c] = "idle"
    /\ calls < MaxCalls
    /\ calls' = calls + 1
    /\ SHOULD_STOP' = FALSE
    /\ IF PLAYBACK_HANDLE # None
       THEN /\ result' = [result EXCEPT ![c] = "Playback already in progress"]
            /\ UNCHANGED cpc
       ELSE /\ cpc' = [cpc EXCEPT ![c] = "s_reset"]
            /\ result' = [result EXCEPT ![c] = "none"]
    /\ HistStart(PLAYBACK_HANDLE = None)
    /\ UNCHANGED <<PLAYBACK_HANDLE, is_macos, spawned, chandle, threadVars,
                   clockVars, keyVars>>

\* The check of PLAYBACK_HANDLE: Err when it is occupied.
StartCheck(c) ==
    /\ cpc[c] = "idle"
    /\ calls < MaxCalls
    /\ calls' = calls + 1
    /\ IF PLAYBACK_HANDLE # None
       THEN /\ result' = [result EXCEPT ![c] = "Playback already in progress"]
            /\ UNCHANGED cpc
       ELSE /\ cpc' = [cpc EXCEPT ![c] = "s_reset"]
            /\ result' = [result EXCEPT ![c] = "none"]
    /\ HistStart(PLAYBACK_HANDLE = None)
    /\ UNCHANGED <<shared, chandle, threadVars, clockVars, keyVars>>

\* *should_stop = false
StartReset(c) ==
    /\ cpc[c] = "s_reset"
    /\ SHOULD_STOP' = FALSE
    /\ cpc' = [cpc EXCEPT ![c] = "s_spawn"]
    /\ UNCHANGED <<PLAYBACK_HANDLE, is_macos, spawned, chandle, result, calls,
                   threadVars, clockVars, keyVars, history>>

\* let handle = thread::spawn(move || ...): the events argument, which
\* start_playback does not read before, moves into the closure.
StartSpawn(c, evs) ==
    /\ cpc[c] = "s_spawn"
    /\ LET r == spawned + 1
       IN  /\ spawned' = r
           /\ tpc' = [tpc EXCEPT ![r] = "enigo"]
           /\ events' = [events EXCEPT ![r] = evs]
           /\ chandle' = [chandle EXCEPT ![c] = r]
    /\ cpc' = [cpc EXCEPT ![c] = "s_store"]
    /\ UNCHANGED <<PLAYBACK_HANDLE, SHOULD_STOP, is_macos, result, calls, idx, how,
                   clockVars, keyVars, history>>

\* *playback_handle = Some(handle); Ok(())
StartStore(c) ==
    /\ cpc[c] = "s_store"
    /\ PLAYBACK_HANDLE' = chandle[c]
    /\ chandle' = [chandle EXCEPT ![c] = None]
    /\ cpc' = [cpc EXCEPT ![c] = "idle"]
    /\ result' = [result EXCEPT ![c] = "start Ok"]
    /\ HistStarted(chandle[c])
    /\ UNCHANGED <<SHOULD_STOP, is_macos, spawned, calls, threadVars, clockVars,
                   keyVars>>

\* -------------------------------------------------------- stop_playback

\* *should_stop = true
StopFlag(c) ==
    /\ cpc[c] = "idle"
    /\ calls < MaxCalls
    /\ calls' = calls + 1
    /\ SHOULD_STOP' = TRUE
    /\ cpc' = [cpc EXCEPT ![c] = "p_take"]
    /\ result' = [result EXCEPT ![c] = "none"]
    /\ HistStop(c)
    /\ UNCHANGED <<PLAYBACK_HANDLE, is_macos, spawned, chandle,
                   threadVars, clockVars, keyVars>>

\* The handle read without being taken.
TakeKeeps(h) == h

\* playback_handle.take(): what the handle holds after it.
Take(h) == None

\* playback_handle.take(); with None there is nothing to join: Ok(())
StopTake(c) ==
    /\ cpc[c] = "p_take"
    /\ PLAYBACK_HANDLE' = Take(PLAYBACK_HANDLE)
    /\ IF PLAYBACK_HANDLE = None
       THEN /\ cpc' = [cpc EXCEPT ![c] = "idle"]
            /\ result' = [result EXCEPT ![c] = "stop Ok"]
            /\ HistStopped(c)
            /\ UNCHANGED chandle
       ELSE /\ cpc' = [cpc EXCEPT ![c] = "p_join"]
            /\ chandle' = [chandle EXCEPT ![c] = PLAYBACK_HANDLE]
            /\ UNCHANGED <<result, history>>
    /\ UNCHANGED <<SHOULD_STOP, is_macos, spawned, calls, threadVars, clockVars,
                   keyVars>>

\* let _ = handle.join(); Ok(())
StopJoin(c) ==
    /\ cpc[c] = "p_join"
    /\ Exited(chandle[c])
    /\ chandle' = [chandle EXCEPT ![c] = None]
    /\ cpc' = [cpc EXCEPT ![c] = "idle"]
    /\ result' = [result EXCEPT ![c] = "stop Ok"]
    /\ HistStopped(c)
    /\ UNCHANGED <<shared, calls, threadVars, clockVars, keyVars>>

\* ------------------------------------------------- the background thread

\* The events in the order of their time fields (a stable sort).
NextEventByTime(evs, i) ==
    LET before(j, k) == evs[j].time < evs[k].time \/ (evs[j].time = evs[k].time /\ j < k)
        rank(j) == 1 + Cardinality({k \in 1..Len(evs) : before(k, j)})
    IN  evs[CHOOSE j \in 1..Len(evs) : rank(j) = i]

\* for event in events: the event at position i.
NextEvent(evs, i) == evs[i]

\* A wait that ends one tick before the target time.
WaitTimeShort(target_time, el) ==
    IF target_time > el THEN target_time - el - TickMs ELSE 0

\* target_time - elapsed when target_time > elapsed, otherwise no sleep.
WaitTime(target_time, el) ==
    IF target_time > el THEN target_time - el ELSE 0

\* Enigo::new: on Err the closure returns; on Ok start_time is taken.
CreateEnigo(r) ==
    /\ tpc[r] = "enigo"
    /\ \/ /\ tpc' = [tpc EXCEPT ![r] = "loop"]
          /\ UNCHANGED <<how, history>>
       \/ /\ tpc' = [tpc EXCEPT ![r] = "done"]
          /\ how' = [how EXCEPT ![r] = "no enigo"]
          /\ HistExit(r)
    /\ UNCHANGED <<shared, callerVars, events, idx, clockVars, keyVars>>

\* The loop is left: start_time is not read again.
LeaveLoop(r, why) ==
    /\ how' = [how EXCEPT ![r] = why]
    /\ elapsed' = [elapsed EXCEPT ![r] = 0]
    /\ UNCHANGED sleepLeft

\* The head of the loop: the end of the events, the first check of SHOULD_STOP,
\* Duration::from_secs_f64(event.time) (which panics on a negative time) and
\* the start of the sleep until the event's time.
LoopHead(r) ==
    /\ tpc[r] = "loop"
    /\ IF idx[r] > Len(events[r])
       THEN /\ tpc' = [tpc EXCEPT ![r] = "clear"]
            /\ LeaveLoop(r, "completed")
            /\ UNCHANGED history
       ELSE IF SHOULD_STOP
       THEN /\ tpc' = [tpc EXCEPT ![r] = "clear"]
            /\ LeaveLoop(r, "cancelled")
            /\ UNCHANGED history
       ELSE IF NextEvent(events[r], idx[r]).time < 0
       THEN /\ tpc' = [tpc EXCEPT ![r] = "panicked"]
            /\ LeaveLoop(r, "panic")
            /\ HistExit(r)
       ELSE /\ tpc' = [tpc EXCEPT ![r] = "sleep"]
            /\ sleepLeft' = [sleepLeft EXCEPT ![r] =
                   WaitTime(NextEvent(events[r], idx[r]).time, elapsed[r])]
            /\ UNCHANGED <<how, elapsed, history>>
    /\ injected' = [injected EXCEPT ![r] = <<>>]
    /\ simres' = [simres EXCEPT ![r] = "none"]
    /\ parsed' = [parsed EXCEPT ![r] = NotParsed]
    /\ UNCHANGED <<shared, callerVars, events, idx, executed>>

\* After the sleep: the second check of SHOULD_STOP.
Recheck(r) ==
    /\ tpc[r] = "sleep"
    /\ sleepLeft[r] = 0
    /\ IF SHOULD_STOP
       THEN /\ tpc' = [tpc EXCEPT ![r] = "clear"]
            /\ LeaveLoop(r, "cancelled")
       ELSE /\ tpc' = [tpc EXCEPT ![r] = "exec"]
            /\ UNCHANGED <<how, clockVars>>
    /\ UNCHANGED <<shared, callerVars, events, idx, keyVars, history>>

\* The loop left at the first Err of simulate_keypress.
AfterKeypressBreaks(res) == IF res = "Ok" THEN "loop" ELSE "clear"

\* if let Err(e) = simulate_keypress(...) { eprintln!(...) }: where the thread
\* goes after simulate_keypress returned res.
AfterKeypress(res) == "loop"

\* simulate_keypress up to its hold: the parse, the presses.
KeyDown(r) ==
    /\ tpc[r] = "exec"
    /\ LET ev == NextEvent(events[r], idx[r])
       IN  /\ executed' = [executed EXCEPT ![r] = Append(@, ev)]
           /\ parsed' = [parsed EXCEPT ![r] = parse_key_string(ev.key, is_macos)]
           /\ \E failAt \in 0..NPressCalls(ev.key, is_macos) :
                LET out == SimPress(ev.key, is_macos, failAt)
                IN  /\ injected' = [injected EXCEPT ![r] = out.acts]
                    /\ IF out.res = "Hold"
                       THEN /\ tpc' = [tpc EXCEPT ![r] = "hold"]
                            /\ sleepLeft' = [sleepLeft EXCEPT ![r] = HoldMs(ev.duration)]
                            /\ simres' = [simres EXCEPT ![r] = "none"]
                            /\ UNCHANGED idx
                       ELSE /\ tpc' = [tpc EXCEPT ![r] = AfterKeypress(out.res)]
                            /\ idx' = [idx EXCEPT ![r] = @ + 1]
                            /\ simres' = [simres EXCEPT ![r] = out.res]
                            /\ UNCHANGED sleepLeft
    /\ UNCHANGED <<shared, callerVars, events, how, elapsed, history>>

\* simulate_keypress after its hold: the releases, and the return.
KeyUp(r) ==
    /\ tpc[r] = "hold"
    /\ sleepLeft[r] = 0
    /\ LET ev == NextEvent(events[r], idx[r])
       IN  \E failAt \in 0..NReleaseCalls(ev.key, is_macos) :
             LET out == SimRelease(ev.key, is_macos, failAt)
             IN  /\ injected' = [injected EXCEPT ![r] = @ \o out.acts]
                 /\ simres' = [simres EXCEPT ![r] = out.res]
                 /\ tpc' = [tpc EXCEPT ![r] = AfterKeypress(out.res)]
    /\ idx' = [idx EXCEPT ![r] = @ + 1]
    /\ UNCHANGED <<shared, callerVars, events, how, clockVars, executed, parsed,
                   history>>

\* *handle = None, and the closure returns.
ClearHandle(r) ==
    /\ tpc[r] = "clear"
    /\ PLAYBACK_HANDLE' = None
    /\ tpc' = [tpc EXCEPT ![r] = "done"]
    /\ HistExit(r)
    /\ UNCHANGED <<SHOULD_STOP, is_macos, spawned, callerVars, events, idx, how,
                   clockVars, keyVars>>

\* ------------------------------------------------------------- the clock

\* The threads whose start_time is taken and still read.
Timed(r) == tpc[r] \in {"loop", "sleep", "exec", "hold"}

\* TickMs pass.
Tick ==
    /\ \E r \in Runs : Timed(r)
    /\ elapsed' = [r \in Runs |->
           IF Timed(r) THEN Min(elapsed[r] + TickMs, ElapsedCap) ELSE elapsed[r]]
    /\ sleepLeft' = [r \in Runs |-> Max(sleepLeft[r] - TickMs, 0)]
    /\ UNCHANGED <<shared, callerVars, threadVars, keyVars, history>>

\* ---------------------------------------------------------- specification

\* A lock block taken as one step: the lock is acquired, the block's statements
\* run and the guard is dropped, so that no guard is held between two steps.
Atomic(A) == A /\ UNCHANGED lockVars

Next ==
    \/ \E c \in Callers : Atomic(StartCheck(c))
    \/ \E c \in Callers : Atomic(StartReset(c))
    \/ \E c \in Callers, evs \in EventSeqs : Atomic(StartSpawn(c, evs))
    \/ \E c \in Callers : Atomic(StartStore(c))
    \/ \E c \in Callers : Atomic(StopFlag(c))
    \/ \E c \in Callers : Atomic(StopTake(c))
    \/ \E c \in Callers : Atomic(StopJoin(c))
    \/ \E r \in Runs : Atomic(CreateEnigo(r))
    \/ \E r \in Runs : Atomic(LoopHead(r))
    \/ \E r \in Runs : Atomic(Recheck(r))
    \/ \E r \in Runs : Atomic(KeyDown(r))
    \/ \E r \in Runs : Atomic(KeyUp(r))
    \/ \E r \in Runs : Atomic(ClearHandle(r))
    \/ Atomic(Tick)

Spec == Init /\ [][Next]_vars

\* One caller makes one start_playback call with one event, over every key
\* expression under test.
KeyNext ==
    \/ \E c \in {"c1"} : calls = 0 /\ Atomic(StartCheck(c))
    \/ \E c \in {"c1"} : Atomic(StartReset(c))
    \/ \E c \in {"c1"}, evs \in KeySeqs : Atomic(StartSpawn(c, evs))
    \/ \E c \in {"c1"} : Atomic(StartStore(c))
    \/ \E r \in Runs : Atomic(CreateEnigo(r))
    \/ \E r \in Runs : Atomic(LoopHead(r))
    \/ \E r \in Runs : Atomic(Recheck(r))
    \/ \E r \in Runs : Atomic(KeyDown(r))
    \/ \E r \in Runs : Atomic(KeyUp(r))
    \/ \E r \in Runs : Atomic(ClearHandle(r))
    \/ Atomic(Tick)

KeySpec == Init /\ [][KeyNext]_vars

\* -------------------------------------------------------------- the locks

\* The lock blocks: the check, the flag reset and the store of start_playback,
\* the flag write and the take of stop_playback; the thread's first and second
\* look at SHOULD_STOP and its clearing of PLAYBACK_HANDLE.
CallerBlocks == {"check", "reset", "store", "flag", "take"}
ThreadBlocks == {"first", "second", "clear"}

\* The mutex a block locks.
LockOf(block) ==
    IF block \in {"check", "store", "take", "clear"}
    THEN "PLAYBACK_HANDLE" ELSE "SHOULD_STOP"

\* Where a caller is when it reaches the block's lock().
CallerEntry(block) ==
    CASE block \in {"check", "flag"} -> "idle"
      [] block = "reset" -> "s_reset"
      [] block = "store" -> "s_store"
      [] block = "take" -> "p_take"

\* Whether thread r is at the block's lock(): the first look is inside the
\* for loop, the second follows the sleep.
AtThreadEntry(r, block) ==
    CASE block = "first" -> tpc[r] = "loop" /\ idx[r] <= Len(events[r])
      [] block = "second" -> tpc[r] = "sleep" /\ sleepLeft[r] = 0
      [] block = "clear" -> tpc[r] = "clear"

\* Nobody holds a guard of the mutex.
Free(l) ==
    /\ \A c \in Callers : l \notin cguards[c]
    /\ \A r \in Runs : l \notin tguards[r]

\* The callers that have locked the first mutex of a call and not yet counted
\* the call.
Entering == {c \in Callers : cblock[c] \in {"check", "flag"}}

\* stop_playback with the guard of PLAYBACK_HANDLE alive until it returns.
DropsGuardAfterJoin(block) == block # "take"

\* The first look at SHOULD_STOP with the guard alive until the iteration ends.
DropsGuardAfterSleep(block) == block # "first"

\* The guard is a local of the block and is dropped where the block ends.
DropsGuard(block) == TRUE

\* lock() of the block's mutex by caller c: it returns when the mutex is free.
CallerLock(c, block) ==
    /\ cblock[c] = "none"
    /\ cpc[c] = CallerEntry(block)
    /\ block \in {"check", "flag"} => calls + Cardinality(Entering) < MaxCalls
    /\ Free(LockOf(block))
    /\ cguards' = [cguards EXCEPT ![c] = @ \cup {LockOf(block)}]
    /\ cblock' = [cblock EXCEPT ![c] = block]
    /\ UNCHANGED <<shared, callerVars, threadVars, clockVars, keyVars, history,
                   tguards, tblock>>

\* Caller c's step A inside the block ("none": outside every block): the guard
\* is dropped at the end of the block, and every guard when the call returns.
CallerStep(c, block, A) ==
    /\ cblock[c] = block
    /\ A
    /\ cblock' = [cblock EXCEPT ![c] = "none"]
    /\ cguards' = [cguards EXCEPT ![c] =
           IF cpc'[c] = "idle" THEN {}
           ELSE IF block # "none" /\ DropsGuard(block) THEN @ \ {LockOf(block)}
           ELSE @]
    /\ UNCHANGED <<tguards, tblock>>

\* lock() of the block's mutex by background thread r.
ThreadLock(r, block) ==
    /\ tblock[r] = "none"
    /\ AtThreadEntry(r, block)
    /\ Free(LockOf(block))
    /\ tguards' = [tguards EXCEPT ![r] = @ \cup {LockOf(block)}]
    /\ tblock' = [tblock EXCEPT ![r] = block]
    /\ UNCHANGED <<shared, callerVars, threadVars, clockVars, keyVars, history,
                   cguards, cblock>>

\* Thread r's step A inside the block ("none": outside every block): the guard
\* is dropped at the end of the block, and every guard when the thread ends.
ThreadStep(r, block, A) ==
    /\ tblock[r] = block
    /\ A
    /\ tblock' = [tblock EXCEPT ![r] = "none"]
    /\ tguards' = [tguards EXCEPT ![r] =
           IF tpc'[r] \in {"done", "panicked"} THEN {}
           ELSE IF block # "none" /\ DropsGuard(block) THEN @ \ {LockOf(block)}
           ELSE @]
    /\ UNCHANGED <<cguards, cblock>>

\* The event sequences of the runs whose locking is followed: none, one event
\* to wait for.
LockSeqs == { <<>>, << KeyEvent(MinHoldMs, K_a, 0) >> }

\* What caller c does once it is inside a call.
CallerProgress(c) ==
    \/ \E block \in {"reset", "store", "take"} : CallerLock(c, block)
    \/ CallerStep(c, "check", StartCheck(c))
    \/ CallerStep(c, "reset", StartReset(c))
    \/ \E evs \in LockSeqs : CallerStep(c, "none", StartSpawn(c, evs))
    \/ CallerStep(c, "store", StartStore(c))
    \/ CallerStep(c, "flag", StopFlag(c))
    \/ CallerStep(c, "take", StopTake(c))
    \/ CallerStep(c, "none", StopJoin(c))

\* What background thread r does; the for loop ends without a lock.
ThreadProgress(r) ==
    \/ \E block \in ThreadBlocks : ThreadLock(r, block)
    \/ ThreadStep(r, "none", CreateEnigo(r))
    \/ ThreadStep(r, "first", LoopHead(r))
    \/ idx[r] > Len(events[r]) /\ ThreadStep(r, "none", LoopHead(r))
    \/ ThreadStep(r, "second", Recheck(r))
    \/ ThreadStep(r, "none", KeyDown(r))
    \/ ThreadStep(r, "none", KeyUp(r))
    \/ ThreadStep(r, "clear", ClearHandle(r))

\* The program at the grain of one lock() per step.
LockNext ==
    \/ \E c \in Callers, block \in {"check", "flag"} : CallerLock(c, block)
    \/ \E c \in Callers : CallerProgress(c)
    \/ \E r \in Runs : ThreadProgress(r)
    \/ Atomic(Tick)

LockSpec == Init /\ [][LockNext]_vars

\* The same steps with MaxFairCalls calls in all.
FairLockNext ==
    \/ \E c \in Callers, block \in {"check", "flag"} :
          calls + Cardinality(Entering) < MaxFairCalls /\ CallerLock(c, block)
    \/ \E c \in Callers : CallerProgress(c)
    \/ \E r \in Runs : ThreadProgress(r)
    \/ Atomic(Tick)

\* Every thread that can take a step, or can again and again, takes one; time
\* passes.  No caller has to begin a call.
FairLockSpec ==
    /\ Init /\ [][FairLockNext]_vars
    /\ \A c \in Callers : SF_vars(CallerProgress(c))
    /\ \A r \in Runs : SF_vars(ThreadProgress(r))
    /\ WF_vars(Atomic(Tick))

\* ------------------------------------------------------------ properties

\* C1: in every reachable state at most one background playback thread has
\* been spawned and has not yet exited.
C1_AtMostOneThread == Cardinality({r \in Runs : Alive(r)}) <= 1

\* C2: a start_playback call made while the run of an earlier start_playback
\* that returned Ok is still processing its events, with no stop_playback call
\* since that return, returns "Playback already in progress" and spawns no
\* thread.
C2_SecondStartRejected ==
    [][\A c \in Callers :
          (StartCheck(c) /\ \E r \in Runs : unstopped[r] /\ Processing(r))
              => /\ result'[c] = "Playback already in progress"
                 /\ cpc'[c] = "idle"
                 /\ spawned' = spawned]_vars

\* C3: when a stop_playback call returns, no thread is still running that was
\* spawned by a start_playback call that had returned before the stop_playback
\* call began.
C3_StopReturnsAfterExit ==
    [][\A c \in Callers : (InStop(c) /\ cpc'[c] = "idle") => watch[c] = {}]_vars

\* C4: if stop_playback set the flag while a run was waiting for event i, and
\* no start_playback call has begun since, the run has passed neither event i
\* nor a later event to simulate_keypress.
C4_CancelDropsRest ==
    \A r \in Runs : cancelAt[r] > 0 => Len(executed[r]) < cancelAt[r]

\* C5: once a run has left its loop (events finished, or cancellation seen),
\* its thread has exited and the start_playback call that spawned it has
\* returned, PLAYBACK_HANDLE does not hold that run's handle.
C5_FinishedRunFreesHandle ==
    \A r \in Runs :
        (tpc[r] = "done" /\ how[r] \in {"completed", "cancelled"} /\ StartReturned(r))
            => PLAYBACK_HANDLE # r

\* C6: a start_playback call that returns "Playback already in progress"
\* leaves PLAYBACK_HANDLE and SHOULD_STOP as they were.
C6_RejectedStartChangesNothing ==
    [][\A c \in Callers :
          (StartCheck(c) /\ result'[c] = "Playback already in progress")
              => UNCHANGED <<PLAYBACK_HANDLE, SHOULD_STOP>>]_vars

\* C6, its case: a start_playback call has been rejected, and a cancellation
\* is pending.
C6_Witness ==
    \E c \in Callers :
        /\ result[c] = "Playback already in progress"
        /\ cpc[c] = "idle"
        /\ SHOULD_STOP
        /\ PLAYBACK_HANDLE # None

\* C7: every stop_playback call returns Ok, and PLAYBACK_HANDLE is empty when
\* it returns, whether or not a playback was running, unless a start_playback
\* call was under way during the call.
C7_StopIdempotent ==
    [][\A c \in Callers :
          (InStop(c) /\ cpc'[c] = "idle")
              => /\ result'[c] = "stop Ok"
                 /\ ~overlap[c] => PLAYBACK_HANDLE' = None]_vars

\* C7, its case: both callers' stop_playback calls have returned, one of them
\* having cancelled a run, another having found nothing to join, and the
\* handle is empty.
C7_Witness ==
    /\ \A c \in Callers : cpc[c] = "idle" /\ result[c] = "stop Ok"
    /\ \E r \in Runs : tpc[r] = "done" /\ how[r] = "cancelled"
    /\ PLAYBACK_HANDLE = None

C9_SequenceOrder ==
    \A r \in Runs :
        /\ Len(executed[r]) <= Len(events[r])
        /\ executed[r] = SubSeq(events[r], 1, Len(executed[r]))

\* C9, its case: a run whose second event has an earlier time than its first
\* has passed both.
C9_Witness ==
    \E r \in Runs :
        /\ Len(executed[r]) = 2
        /\ events[r][2].time < events[r][1].time

\* C10: a run is about to pass an event to simulate_keypress only when at
\* least the event's time has elapsed since start_time, and no wait is
\* negative.
C10_NeverEarly ==
    \A r \in Runs :
        /\ tpc[r] = "exec" => elapsed[r] >= NextEvent(events[r], idx[r]).time
        /\ sleepLeft[r] >= 0

\* C10, its case: a run that waited for its first event is about to pass its
\* second, whose time had already elapsed.
C10_Witness ==
    \E r \in Runs :
        /\ tpc[r] = "exec" /\ idx[r] = 2
        /\ events[r][1].time > 0
        /\ events[r][2].time < elapsed[r]

\* ----------------------------------------- properties of simulate_keypress

\* The errors of a failed injection call.
InjectionFailures ==
    { "Failed to press modifier", "Failed to press key",
      "Failed to release key", "Failed to release modifier" }

\* This iteration's simulate_keypress call has returned.
Returned(r) == simres[r] # "none"

\* The event of this iteration's simulate_keypress call.
LastEvent(r) == executed[r][Len(executed[r])]

\* press m1, ..., press mk, press c, release c, release mk, ..., release m1
Protocol(ms, key) ==
    [i \in 1..(2 * Len(ms) + 2) |->
        IF i <= Len(ms) THEN Press(ModKey(ms[i]))
        ELSE IF i = Len(ms) + 1 THEN Press(key)
        ELSE IF i = Len(ms) + 2 THEN Release(key)
        ELSE Release(ModKey(ms[2 * Len(ms) + 3 - i]))]

\* The protocol of the parsed key of run r's current call.
ProtocolOf(r) ==
    Protocol(parsed[r].modifiers, MainKey(parsed[r].main_key, is_macos))

\* C11, as stated: whenever simulate_keypress has returned from a call whose
\* key expression parsed and in which no injection call failed, it has issued
\* press m1..mk, press c, release c, release mk..m1 and nothing else.
C11_ProtocolWheneverParsed ==
    \A r \in Runs :
        (Returned(r) /\ parsed[r].ok /\ simres[r] \notin InjectionFailures)
            => injected[r] = ProtocolOf(r)

\* C11, amended: for a key expression that parses to modifiers m1..mk and a
\* main key c the platform can inject, and when no injection call fails,
\* simulate_keypress presses m1..mk and c, then holds for
\* max(duration, 50 ms) and not less, then releases c and mk..m1, and issues
\* nothing else.
C11_PressReleaseProtocol ==
    /\ [](\A r \in Runs :
            /\ tpc[r] = "hold"
                 => /\ injected[r] = SubSeq(ProtocolOf(r), 1, Len(parsed[r].modifiers) + 1)
                    /\ sleepLeft[r] <= Max(LastEvent(r).duration, MinHoldMs)
            /\ (/\ Returned(r) /\ parsed[r].ok
                /\ Supported(parsed[r].main_key, is_macos)
                /\ simres[r] \notin InjectionFailures)
                 => injected[r] = ProtocolOf(r))
    /\ [][\A r \in Runs :
            /\ (tpc[r] = "exec" /\ tpc'[r] = "hold")
                 => sleepLeft'[r] = Max(LastEvent(r)'.duration, MinHoldMs)
            /\ (tpc[r] = "hold" /\ tpc'[r] # "hold") => sleepLeft[r] = 0]_vars

\* C11, its case: simulate_keypress has returned Ok for an expression with two
\* different modifiers, having issued the six calls of the protocol.
C11_Witness ==
    \E r \in Runs :
        /\ simres[r] = "Ok"
        /\ Len(parsed[r].modifiers) = 2
        /\ parsed[r].modifiers[1] # parsed[r].modifiers[2]
        /\ injected[r] = ProtocolOf(r)

\* ------------------------------------------ properties of parse_key_string

\* parse_key_string has returned in this iteration of run r.
Parsed(r) == parsed[r] # NotParsed

\* Every token of ms names a modifier.
Recognized(ms) == \A i \in 1..Len(ms) : ms[i].names # "Unknown"

\* The first token of ms that names no modifier.
FirstUnknown(ms) ==
    ms[CHOOSE i \in 1..Len(ms) :
          /\ ms[i].names = "Unknown"
          /\ \A j \in 1..(i - 1) : ms[j].names # "Unknown"]

\* C12: for every key expression made of n >= 0 recognized modifier tokens, in
\* any letter case, and a one-character final token, joined by '+',
\* parse_key_string returns Ok with the n modifiers in the order written and
\* the final token's character as main key; without '+', no modifiers.
C12_ParsesModifiersInOrder ==
    \A r \in Runs : Parsed(r) =>
        \A ms \in ModSeqs, fin \in FinalTokens :
            (Recognized(ms) /\ Len(fin) = 1 /\ LastEvent(r).key = Expr(ms, fin))
                => /\ parsed[r].ok
                   /\ parsed[r].modifiers =
                          [i \in 1..Len(ms) |-> KeyNamed(ms[i], is_macos)]
                   /\ parsed[r].main_key = fin[1]

\* C13: after recognized modifier tokens, parse_key_string accepts the final
\* token if and only if it is exactly one character: a single character, of
\* one byte or more, is the main key; an empty final token or one of several
\* characters gives "Invalid main key".
C13_FinalTokenOneCharacter ==
    \A r \in Runs : Parsed(r) =>
        \A ms \in ModSeqs, fin \in FinalTokens :
            (Recognized(ms) /\ LastEvent(r).key = Expr(ms, fin))
                => IF Len(fin) = 1
                   THEN parsed[r].ok /\ parsed[r].main_key = fin[1]
                   ELSE /\ ~parsed[r].ok
                        /\ parsed[r].err = "Invalid main key"
                        /\ parsed[r].part = fin

\* C14: for a key expression with an unrecognized token before the last,
\* parse_key_string returns the "Unknown modifier key" error naming that token
\* as written (the first such token), and the simulate_keypress call of the
\* event makes no injection call: neither the main key nor any modifier is
\* pressed, and there is no hold.
C14_UnknownModifierNamed ==
    \A r \in Runs : Parsed(r) =>
        \A ms \in ModSeqs, fin \in FinalTokens :
            (~Recognized(ms) /\ LastEvent(r).key = Expr(ms, fin))
                => /\ ~parsed[r].ok
                   /\ parsed[r].err = "Unknown modifier key"
                   /\ parsed[r].part = FirstUnknown(ms).text
                   /\ injected[r] = <<>>
                   /\ simres[r] = "Unknown modifier key"
                   /\ tpc[r] # "hold"

\* C14, its case: the call for "Shift+foo+a" has returned the error naming
\* "foo", with nothing injected, and the run goes on.
C14_Witness ==
    \E r \in Runs :
        /\ parsed[r].err = "Unknown modifier key"
        /\ LastEvent(r).key = <<"S", "h", "i", "f", "t", "+", "f", "o", "o", "+", "a">>
        /\ parsed[r].part = <<"f", "o", "o">>
        /\ injected[r] = <<>>
        /\ tpc[r] = "loop"

\* ------------------------------------------- properties of the controller

\* C15: in every reachable state PLAYBACK_HANDLE holds a handle only of a run
\* that is executing or has exited without having been joined, and whenever a
\* run is executing events (waiting for one, or inside simulate_keypress)
\* PLAYBACK_HANDLE is occupied.
C15_HandleInvariant ==
    /\ PLAYBACK_HANDLE # None
         => Alive(PLAYBACK_HANDLE) \/ Exited(PLAYBACK_HANDLE)
    /\ \A r \in Runs :
         tpc[r] \in {"sleep", "exec", "hold"} => PLAYBACK_HANDLE # None

\* C18: whenever simulate_keypress has returned, with Ok or with an error, no
\* key it pressed during the call is still down.
C18_NoKeyLeftHeld ==
    \A r \in Runs : Returned(r) => Held(injected[r]) = {}

\* C19: a run whose thread could not create the Enigo instance has executed
\* no event, and once the thread has exited and the start_playback call that
\* spawned it has returned, PLAYBACK_HANDLE does not hold its handle (so that
\* the next start_playback call is not rejected because of it).
C19_NoEnigoReturnsToIdle ==
    \A r \in Runs :
        how[r] = "no enigo"
            => /\ executed[r] = <<>>
               /\ (tpc[r] = "done" /\ StartReturned(r)) => PLAYBACK_HANDLE # r

\* C20: at the head of the loop, with no cancellation pending, an event whose
\* time is not after the time elapsed (a negative time included) is waited for
\* zero time; and a thread that has exited without seeing a cancellation has
\* passed every event to simulate_keypress and left through the clearing of
\* PLAYBACK_HANDLE.
C20_PastEventsAreDue ==
    /\ [][\A r \in Runs :
            (/\ tpc[r] = "loop" /\ tpc'[r] # "loop"
             /\ idx[r] <= Len(events[r]) /\ ~SHOULD_STOP
             /\ NextEvent(events[r], idx[r]).time <= elapsed[r])
                => tpc'[r] = "sleep" /\ sleepLeft'[r] = 0]_vars
    /\ [](\A r \in Runs :
            (Exited(r) /\ how[r] \notin {"cancelled", "no enigo"})
                => executed[r] = events[r] /\ tpc[r] = "done")

\* ------------------------------------------------ properties of the locks

\* C16: in every reachable state a thread holds a guard only inside a lock
\* block, and then only the guard of that block's mutex, never both; it holds
\* none while it sleeps until an event's time, while it is in
\* simulate_keypress (the hold included), or while its stop_playback call is
\* joining the background thread.
C16_LockDiscipline ==
    /\ \A c \in Callers :
         /\ Cardinality(cguards[c]) <= 1
         /\ cguards[c] # {}
              => cblock[c] # "none" /\ cguards[c] = {LockOf(cblock[c])}
         /\ cpc[c] = "p_join" => cguards[c] = {}
    /\ \A r \in Runs :
         /\ Cardinality(tguards[r]) <= 1
         /\ tguards[r] # {}
              => tblock[r] # "none" /\ tguards[r] = {LockOf(tblock[r])}
         /\ (tpc[r] = "sleep" /\ sleepLeft[r] > 0) => tguards[r] = {}
         /\ tpc[r] \in {"exec", "hold"} => tguards[r] = {}

\* C16, its case: a run sleeps until its event's time while a stop_playback
\* call is joining it and the other caller is inside a lock block.
C16_Witness ==
    \E r \in Runs, c \in Callers, d \in Callers :
        /\ tpc[r] = "sleep" /\ sleepLeft[r] > 0
        /\ cpc[c] = "p_join" /\ chandle[c] = r
        /\ cguards[d] # {}

\* Caller c is inside a stop_playback call.
StopCalled(c) == cblock[c] = "flag" \/ InStop(c)

\* C17: under fair scheduling, with every sleep and every injection call
\* returning, every stop_playback call returns.
C17_StopTerminates ==
    \A c \in Callers : StopCalled(c) ~> ~StopCalled(c)

\* C17, its case: a stop_playback call is joining a run whose thread holds
\* the lock of PLAYBACK_HANDLE for its final clearing.
C17_Witness ==
    \E c \in Callers, r \in Runs :
        /\ cpc[c] = "p_join" /\ chandle[c] = r
        /\ tblock[r] = "clear"

====
